---- MODULE Spec2Model ----
(***************************************************************************)
(* total_file_size.py: the two entry points of a parallel-run step.        *)
(*   init()          prints "Init"                                         *)
(*   run(mini_batch) prints the batch and its length, looks up the size    *)
(*                   of each path in order, prints the total and returns   *)
(*                   the list of sizes.                                    *)
(* Every worker is a process of its own that an orchestrator drives: it    *)
(* calls init and run one after the other, never two at once in the same   *)
(* worker.  run is modelled statement by statement; pc names the source    *)
(* line the worker executes next.                                          *)
(***************************************************************************)
EXTENDS Integers, Sequences, FiniteSets, TLC

(* Bounds of the model. *)
MaxLen == 2
MaxInits == 2

Workers == {"w1", "w2"}
Paths == {"a.txt", "b.txt"}
Sizes == {0, 5, 10}

VARIABLES
    fs,          \* the files that exist, each with its size in bytes
    pc,          \* per worker: "idle", or the line of run executed next
    mini_batch,  \* per worker: the list object the orchestrator passed to run
    locals,      \* per frame: the names run has bound so far, with their values
    outcome,     \* per worker: how the latest call of run ended
    log,         \* per worker: what it printed since its latest call of run began
    lookups,     \* per worker: the batch positions getsize was called on, in order
    batch0,      \* per worker: the elements of mini_batch when run was called
    inits        \* per worker: the calls of init made so far

vars == <<fs, pc, mini_batch, locals, outcome, log, lookups, batch0, inits>>

(* ------------------------------ values -------------------------------- *)

\* All batches of at most MaxLen paths, repeated paths included.
Batches == UNION {[1..n -> Paths] : n \in 0..MaxLen}

\* Every file system over Paths: a path outside DOMAIN fs does not exist.
FileSystems == UNION {[D -> Sizes] : D \in SUBSET Paths}

\* A frame with no name bound yet.
NoLocals == [n \in {} |-> 0]

\* r with name bound to v (an assignment to a local name).
Bind(r, name, v) == [n \in (DOMAIN r) \cup {name} |-> IF n = name THEN v ELSE r[n]]

NoOutcome == [kind |-> "none"]
Returned(v) == [kind |-> "return", value |-> v]
Raised == [kind |-> "raise", error |-> "OSError"]

\* A single frame for every call, as if the names were globals of the module.
SharedFrame(w) == "w1"

\* The frame that holds the local names of worker w's call of run: file_size_list
\* and total_file_size are assigned inside run, so each call has its own.
Frame(w) == w

(* --------------------------- library calls ---------------------------- *)

\* Output that is lost instead of written.
printLost(out, msg) == out

\* print: one more line on the worker's standard output.
print(out, msg) == Append(out, msg)

\* os.path.getsize: the size of an existing file; it raises OSError otherwise.
accessible(p) == p \in DOMAIN fs
getsize(p) == fs[p]

\* list.insert(0, x): the new element goes first.
insertFirst(list, x) == [list EXCEPT !.items = <<x>> \o @]

\* list.append
append(list, x) == [list EXCEPT !.items = Append(@, x)]

\* len
len(list) == Len(list.items)

(* ------------------------------- init --------------------------------- *)

InitMsg == [kind |-> "Init"]

\* An init that prints its line twice.
initTwice(w) ==
    /\ pc[w] = "idle"
    /\ inits[w] < MaxInits
    /\ log' = [log EXCEPT ![w] = print(print(@, InitMsg), InitMsg)]
    /\ inits' = [inits EXCEPT ![w] = @ + 1]
    /\ UNCHANGED <<fs, pc, mini_batch, locals, outcome, lookups, batch0>>

init(w) ==
    /\ pc[w] = "idle"
    /\ inits[w] < MaxInits
    /\ log' = [log EXCEPT ![w] = print(@, InitMsg)]
    /\ inits' = [inits EXCEPT ![w] = @ + 1]
    /\ UNCHANGED <<fs, pc, mini_batch, locals, outcome, lookups, batch0>>

(* -------------------------------- run --------------------------------- *)

\* The orchestrator calls run(paths) in worker w: a new frame, nothing bound.
Call(w) ==
    /\ pc[w] = "idle"
    /\ \E paths \in Batches :
          /\ mini_batch' = [mini_batch EXCEPT ![w] = [id |-> "arg", items |-> paths]]
          /\ batch0' = [batch0 EXCEPT ![w] = paths]
    /\ locals' = [locals EXCEPT ![Frame(w)] = NoLocals]
    /\ outcome' = [outcome EXCEPT ![w] = NoOutcome]
    /\ log' = [log EXCEPT ![w] = <<>>]
    /\ lookups' = [lookups EXCEPT ![w] = <<>>]
    /\ pc' = [pc EXCEPT ![w] = "L13"]
    /\ UNCHANGED <<fs, inits>>

StartMsg(batch) == [kind |-> "start", batch |-> batch.items]
CountMsg(batch) == [kind |-> "count", n |-> len(batch)]
TotalMsg(total) == [kind |-> "total", n |-> total]

\* print(f'run method start: {__file__}, run({mini_batch})')
L13(w) ==
    /\ pc[w] = "L13"
    /\ log' = [log EXCEPT ![w] = print(@, StartMsg(mini_batch[w]))]
    /\ pc' = [pc EXCEPT ![w] = "L14"]
    /\ UNCHANGED <<fs, mini_batch, locals, outcome, lookups, batch0, inits>>

\* print(f'total_file_count = {len(mini_batch)}')
L14(w) ==
    /\ pc[w] = "L14"
    /\ log' = [log EXCEPT ![w] = print(@, CountMsg(mini_batch[w]))]
    /\ pc' = [pc EXCEPT ![w] = "L15"]
    /\ UNCHANGED <<fs, mini_batch, locals, outcome, lookups, batch0, inits>>

\* file_size_list = mini_batch: the name bound to the caller's list.
AliasInput(w) == mini_batch[w]

\* []: a new, empty list object
NewList(w) == [id |-> "new", items |-> <<>>]

\* file_size_list = []
L15(w) ==
    /\ pc[w] = "L15"
    /\ locals' = [locals EXCEPT ![Frame(w)] = Bind(@, "file_size_list", NewList(w))]
    /\ pc' = [pc EXCEPT ![w] = "L16"]
    /\ UNCHANGED <<fs, mini_batch, outcome, log, lookups, batch0, inits>>

\* total_file_size = 0; the for statement then makes its iterator over mini_batch
L16(w) ==
    /\ pc[w] = "L16"
    /\ locals' = [locals EXCEPT ![Frame(w)] = Bind(Bind(@, "total_file_size", 0), "it", 0)]
    /\ pc' = [pc EXCEPT ![w] = "L17"]
    /\ UNCHANGED <<fs, mini_batch, outcome, log, lookups, batch0, inits>>

\* An iterator that skips the element after the one it yields.
AdvanceTwo(i) == i + 2

\* The position the list iterator moves to after yielding an element.
Advance(i) == i + 1

\* for file_path in mini_batch: the next element, or the end of the loop
L17(w) ==
    /\ pc[w] = "L17"
    /\ LET f == locals[Frame(w)] IN
         IF f.it < len(mini_batch[w])
         THEN /\ locals' = [locals EXCEPT ![Frame(w)] =
                     Bind(Bind(@, "file_path", mini_batch[w].items[f.it + 1]),
                          "it", Advance(f.it))]
              /\ pc' = [pc EXCEPT ![w] = "L18"]
         ELSE /\ pc' = [pc EXCEPT ![w] = "L21"]
              /\ UNCHANGED locals
    /\ UNCHANGED <<fs, mini_batch, outcome, log, lookups, batch0, inits>>

\* An except clause that skips the path and goes on with the loop.
SkipPath(w) ==
    /\ pc' = [pc EXCEPT ![w] = "L17"]
    /\ UNCHANGED <<outcome, locals>>

\* An except clause that leaves the loop and returns the sizes collected so far.
ReturnPartial(w) ==
    /\ outcome' = [outcome EXCEPT ![w] = Returned(locals[Frame(w)].file_size_list)]
    /\ locals' = [locals EXCEPT ![Frame(w)] = NoLocals]
    /\ pc' = [pc EXCEPT ![w] = "idle"]

\* An except clause that tries the same path again.
RetryPath(w) ==
    /\ pc' = [pc EXCEPT ![w] = "L18"]
    /\ UNCHANGED <<outcome, locals>>

\* getsize raised and run has no handler: the frame is dropped and the error
\* reaches the caller.
Propagate(w) ==
    /\ outcome' = [outcome EXCEPT ![w] = Raised]
    /\ locals' = [locals EXCEPT ![Frame(w)] = NoLocals]
    /\ pc' = [pc EXCEPT ![w] = "idle"]

\* file_size = os.path.getsize(file_path)
L18(w) ==
    /\ pc[w] = "L18"
    /\ lookups' = [lookups EXCEPT ![w] = Append(@, locals[Frame(w)].it)]
    /\ LET p == locals[Frame(w)].file_path IN
         IF accessible(p)
         THEN /\ locals' = [locals EXCEPT ![Frame(w)] = Bind(@, "file_size", getsize(p))]
              /\ pc' = [pc EXCEPT ![w] = "L19"]
              /\ UNCHANGED outcome
         ELSE Propagate(w)
    /\ UNCHANGED <<fs, mini_batch, log, batch0, inits>>

\* file_size_list.append(file_size)
L19(w) ==
    /\ pc[w] = "L19"
    /\ locals' = [locals EXCEPT ![Frame(w)] =
            [@ EXCEPT !.file_size_list = append(@, locals[Frame(w)].file_size)]]
    /\ pc' = [pc EXCEPT ![w] = "L20"]
    /\ UNCHANGED <<fs, mini_batch, outcome, log, lookups, batch0, inits>>

\* total_file_size = file_size
Overwrite(total, size) == size

\* total_file_size + file_size
Accumulate(total, size) == total + size

\* total_file_size += file_size
L20(w) ==
    /\ pc[w] = "L20"
    /\ locals' = [locals EXCEPT ![Frame(w)] =
            [@ EXCEPT !.total_file_size = Accumulate(@, locals[Frame(w)].file_size)]]
    /\ pc' = [pc EXCEPT ![w] = "L17"]
    /\ UNCHANGED <<fs, mini_batch, outcome, log, lookups, batch0, inits>>

\* print(f'total_file_size = {total_file_size}')
L21(w) ==
    /\ pc[w] = "L21"
    /\ log' = [log EXCEPT ![w] = print(@, TotalMsg(locals[Frame(w)].total_file_size))]
    /\ pc' = [pc EXCEPT ![w] = "L23"]
    /\ UNCHANGED <<fs, mini_batch, locals, outcome, lookups, batch0, inits>>

\* return file_size_list
L23(w) ==
    /\ pc[w] = "L23"
    /\ outcome' = [outcome EXCEPT ![w] = Returned(locals[Frame(w)].file_size_list)]
    /\ locals' = [locals EXCEPT ![Frame(w)] = NoLocals]
    /\ pc' = [pc EXCEPT ![w] = "idle"]
    /\ UNCHANGED <<fs, mini_batch, log, lookups, batch0, inits>>

\* One statement of run in worker w.
run(w) ==
    \/ L13(w) \/ L14(w) \/ L15(w) \/ L16(w) \/ L17(w)
    \/ L18(w) \/ L19(w) \/ L20(w) \/ L21(w) \/ L23(w)

(* --------------------------- specifications --------------------------- *)

Init ==
    /\ fs \in FileSystems
    /\ pc = [w \in Workers |-> "idle"]
    /\ mini_batch = [w \in Workers |-> [id |-> "arg", items |-> <<>>]]
    /\ locals = [w \in Workers |-> NoLocals]
    /\ outcome = [w \in Workers |-> NoOutcome]
    /\ log = [w \in Workers |-> <<>>]
    /\ lookups = [w \in Workers |-> <<>>]
    /\ batch0 = [w \in Workers |-> <<>>]
    /\ inits = [w \in Workers |-> 0]

\* One worker: the orchestrator calls init and run in any order.
Next ==
    \/ init("w1")
    \/ Call("w1")
    \/ run("w1")

Spec == Init /\ [][Next]_vars

\* Several workers, each running batches of its own.
ConcNext ==
    \/ \E w \in Workers : Call(w)
    \/ \E w \in Workers : run(w)

ConcSpec == Init /\ [][ConcNext]_vars

\* One worker in which every statement of run, once reached, is executed: a
\* lookup ends with a size or an error.
FairSpec == Spec /\ WF_vars(run("w1"))

(* ----------------------------- properties ----------------------------- *)

RECURSIVE Sum(_)
Sum(s) == IF s = <<>> THEN 0 ELSE Head(s) + Sum(Tail(s))

Prefix(s, k) == SubSeq(s, 1, k)

AllAccessible(paths) == \A i \in 1..Len(paths) : paths[i] \in DOMAIN fs

\* The size on disk of each path of an all-accessible batch, in batch order.
SizesOf(paths) == [i \in 1..Len(paths) |-> fs[paths[i]]]

\* The first position of the batch whose path is inaccessible.
FirstBad(paths) ==
    CHOOSE i \in 1..Len(paths) :
        /\ paths[i] \notin DOMAIN fs
        /\ \A j \in 1..(i - 1) : paths[j] \in DOMAIN fs

\* Worker w's latest call of run has ended.
Finished(w) == pc[w] = "idle" /\ outcome[w].kind # "none"

\* The positions of the lines of kind k in worker w's output.
Lines(w, k) == {i \in 1..Len(log[w]) : log[w][i].kind = k}

(* C1: a call of run on a batch whose paths are all accessible returns a list
   as long as the batch whose i-th element is the size of the i-th path: the
   empty list for the empty batch, nothing reordered, sorted or dropped. *)
C1_ReturnsSizesInOrder ==
    \A w \in Workers :
        (Finished(w) /\ AllAccessible(batch0[w])) =>
            /\ outcome[w].kind = "return"
            /\ Len(outcome[w].value.items) = Len(batch0[w])
            /\ \A i \in 1..Len(batch0[w]) :
                  outcome[w].value.items[i] = fs[batch0[w][i]]

\* A returned list in batch order that is not in ascending order.
C1_Witness ==
    /\ Finished("w1")
    /\ outcome["w1"].kind = "return"
    /\ batch0["w1"] = <<"b.txt", "a.txt">>
    /\ outcome["w1"].value.items = <<10, 5>>

(* C2: a call of run on a batch with an inaccessible path ends with the
   file-access error and with no value, not even the sizes collected before
   the failing path; while the call is under way nothing has been returned. *)
C2_ErrorPropagates ==
    \A w \in Workers :
        /\ (Finished(w) /\ ~AllAccessible(batch0[w])) =>
              /\ outcome[w].kind = "raise"
              /\ outcome[w].error = "OSError"
              /\ "value" \notin DOMAIN outcome[w]
              /\ Len(lookups[w]) = FirstBad(batch0[w])
        /\ pc[w] # "idle" => outcome[w].kind = "none"

\* The call failed on its second path after the size of the first was collected.
C2_Witness ==
    /\ Finished("w1")
    /\ outcome["w1"] = Raised
    /\ batch0["w1"] = <<"a.txt", "b.txt">>
    /\ "a.txt" \in DOMAIN fs
    /\ lookups["w1"] = <<1, 2>>

(* C3: a call of run that returns has printed exactly one count line, with the
   length of the batch, and after it exactly one total line, with the sum of
   the returned list; the total line is out before run returns. *)
C3_LogReportsCountAndTotal ==
    \A w \in Workers :
        /\ outcome[w].kind = "return" =>
              /\ Cardinality(Lines(w, "count")) = 1
              /\ Cardinality(Lines(w, "total")) = 1
              /\ \A i \in Lines(w, "count") : log[w][i].n = Len(batch0[w])
              /\ \A j \in Lines(w, "total") : log[w][j].n = Sum(outcome[w].value.items)
        /\ pc[w] = "L23" => Lines(w, "total") # {}
        /\ \A j \in Lines(w, "total") : \E i \in Lines(w, "count") : i < j

\* A returned call whose total line reports 15, the sum of two sizes.
C3_Witness ==
    /\ outcome["w1"].kind = "return"
    /\ outcome["w1"].value.items = <<5, 10>>
    /\ \E j \in Lines("w1", "total") : log["w1"][j].n = 15

(* C4: when run fails on an inaccessible path, at whatever position, the start
   line and the count line are already out: they are the first two lines of
   the call's output from the first lookup on, and no total line follows. *)
C4_LogBeforeFailure ==
    \A w \in Workers :
        (pc[w] = "L18" \/ outcome[w].kind = "raise") =>
            /\ Len(log[w]) >= 2
            /\ log[w][1] = [kind |-> "start", batch |-> batch0[w]]
            /\ log[w][2] = [kind |-> "count", n |-> Len(batch0[w])]
            /\ Lines(w, "total") = {}

\* A call that failed on the second path of its batch.
C4_Witness ==
    /\ outcome["w1"].kind = "raise"
    /\ Len(batch0["w1"]) = 2
    /\ batch0["w1"][1] \in DOMAIN fs
    /\ Len(log["w1"]) = 2

(* C5: init can be called whenever the worker is not inside run; a call of
   init adds the one line "Init" to the output and changes nothing else, so a
   later run returns the sizes of its batch however many inits came before. *)
C5_InitOnlyPrints ==
    /\ [](\A w \in Workers :
            (pc[w] = "idle" /\ inits[w] < MaxInits) => ENABLED init(w))
    /\ [][\A w \in Workers :
            inits'[w] # inits[w] =>
               /\ inits'[w] = inits[w] + 1
               /\ log'[w] = Append(log[w], [kind |-> "Init"])
               /\ UNCHANGED <<fs, pc, mini_batch, locals, outcome, lookups, batch0>>]_vars
    /\ [](\A w \in Workers :
            (outcome[w].kind = "return" /\ inits[w] > 0) =>
                outcome[w].value.items = SizesOf(batch0[w]))

\* run returned after init had been called twice before the call began.
C5_Witness ==
    /\ outcome["w1"].kind = "return"
    /\ Len(batch0["w1"]) > 0
    /\ inits["w1"] = 2
    /\ Lines("w1", "Init") = {}

\* What run returns or raises on a batch when it is the only call under way.
RunAlone(paths) ==
    IF AllAccessible(paths)
    THEN Returned([id |-> "new", items |-> SizesOf(paths)])
    ELSE Raised

(* C6: with several workers inside run at once, a step of one worker changes
   no other worker's frame, output or outcome, and each call ends exactly as
   it would alone on its batch. *)
C6_CallsAreIndependent ==
    /\ [](\A w \in Workers : Finished(w) => outcome[w] = RunAlone(batch0[w]))
    /\ [][\A w \in Workers :
            pc'[w] # pc[w] =>
               \A v \in Workers \ {w} :
                  /\ locals'[v] = locals[v]
                  /\ outcome'[v] = outcome[v]
                  /\ log'[v] = log[v]
                  /\ pc'[v] = pc[v]]_vars

\* Both workers are inside the loop, each with a size collected for its own batch.
C6_Witness ==
    /\ pc["w1"] = "L20"
    /\ pc["w2"] = "L20"
    /\ locals["w1"].file_size_list.items = <<5>>
    /\ locals["w2"].file_size_list.items = <<10>>

(* C7: when run has ended, by returning or by raising, the caller's batch has
   the elements it had at the call, in the same order, and a returned list is
   another object than the batch. *)
C7_BatchIsReadOnly ==
    \A w \in Workers :
        Finished(w) =>
            /\ mini_batch[w].items = batch0[w]
            /\ outcome[w].kind = "return" => outcome[w].value.id # mini_batch[w].id

\* A returned call on a batch that names the same path twice.
C7_Witness ==
    /\ Finished("w1")
    /\ outcome["w1"].kind = "return"
    /\ mini_batch["w1"].items = <<"a.txt", "a.txt">>

(* C8: the lookups of a call are made on positions 1, 2, 3, ... of the batch,
   each once, and every position before the last one looked up is accessible:
   nothing after the first inaccessible path is looked up. *)
C8_LookupsInOrder ==
    \A w \in Workers :
        /\ Len(lookups[w]) <= Len(batch0[w])
        /\ \A i \in 1..Len(lookups[w]) : lookups[w][i] = i
        /\ \A i \in 1..(Len(lookups[w]) - 1) : batch0[w][i] \in DOMAIN fs

\* The first path is inaccessible, the second is not, and only the first was looked up.
C8_Witness ==
    /\ Finished("w1")
    /\ Len(batch0["w1"]) = 2
    /\ batch0["w1"][1] \notin DOMAIN fs
    /\ batch0["w1"][2] \in DOMAIN fs
    /\ lookups["w1"] = <<1>>

\* The lines of the loop, and the iterations of it that worker w has completed.
InLoop(w) == pc[w] \in {"L17", "L18", "L19", "L20"}
Processed(w) ==
    IF pc[w] = "L17" THEN locals[Frame(w)].it ELSE locals[Frame(w)].it - 1

\* After k paths: k sizes in batch order, and their sum.
Accumulated(w, k) ==
    LET f == locals[Frame(w)] IN
    /\ Len(f.file_size_list.items) = k
    /\ \A j \in 1..k : f.file_size_list.items[j] = fs[batch0[w][j]]
    /\ f.total_file_size = Sum(f.file_size_list.items)

(* C9 as stated: at every point of the loop, after k paths have been
   processed, file_size_list holds the k sizes and total_file_size their sum.
   Stated for whichever k fits, so that it does not rest on how the paths
   processed are counted inside an iteration. *)
C9_AtEveryPoint ==
    \A w \in Workers :
        InLoop(w) => \E k \in 0..Len(batch0[w]) : Accumulated(w, k)

(* C9, amended: that holds at every point of the loop but the one between the
   append of line 19 and the addition of line 20, where file_size_list already
   holds k + 1 sizes and total_file_size is the sum of the first k; the two
   start from the empty list and 0. *)
C9_LoopInvariant ==
    \A w \in Workers :
        LET f == locals[Frame(w)]
            k == Processed(w)
        IN
        /\ pc[w] \in {"L17", "L18", "L19"} => Accumulated(w, k)
        /\ pc[w] = "L20" =>
              /\ Len(f.file_size_list.items) = k + 1
              /\ \A j \in 1..(k + 1) : f.file_size_list.items[j] = fs[batch0[w][j]]
              /\ f.total_file_size = Sum(Prefix(f.file_size_list.items, k))
        /\ (pc[w] = "L17" /\ f.it = 0) =>
              f.file_size_list.items = <<>> /\ f.total_file_size = 0

\* Two paths processed: both sizes collected and the total is their sum.
C9_Witness ==
    /\ pc["w1"] = "L17"
    /\ locals["w1"].it = 2
    /\ locals["w1"].file_size_list.items = <<10, 5>>
    /\ locals["w1"].total_file_size = 15

(* C10: provided every statement of run that is reached is executed, a call
   of run ends; it never makes more lookups than the batch has paths, makes
   exactly that many when it returns and at most that many when it raises. *)
C10_RunTerminates ==
    /\ [](\A w \in Workers :
            /\ Len(lookups[w]) <= Len(batch0[w])
            /\ outcome[w].kind = "return" => Len(lookups[w]) = Len(batch0[w]))
    /\ (pc["w1"] # "idle") ~> Finished("w1")

\* A finished call that made as many lookups as its batch has paths.
C10_Witness ==
    /\ Finished("w1")
    /\ Len(batch0["w1"]) = 2
    /\ Len(lookups["w1"]) = 2

====
